---- MODULE Spec2Model ----
(***************************************************************************)
(* Mergington High School API (src/src/app.py): the in-memory activity     *)
(* directory and the HTTP routes the FastAPI application registers.        *)
(*                                                                         *)
(* A step of the model is one HTTP request handled to completion: the      *)
(* router picks the endpoint registered for the request's method and path, *)
(* the endpoint runs, and the response is recorded.  Requests for which    *)
(* the application registers no route are answered by the router itself.   *)
(***************************************************************************)
EXTENDS Integers, Sequences, FiniteSets, TLC

VARIABLES
    activities,   \* the module-level dict `activities` (app.py:23)
    request,      \* the request handled last
    response,     \* the response returned for it
    lastOk,       \* history: per (activity, email), the operation of the last
                  \* signup or unregister for the pair that was answered 200
                  \* ("none" before any)
    workers,      \* per threadpool worker: where it is in signup_for_activity,
                  \* the request it handles and the response it returned last
    raced         \* history: the (activity, email) pairs for which a worker
                  \* passed the duplicate check while another worker, past
                  \* its own check for the same pair, had yet to append

\* The variables of concurrent handling; one-at-a-time handling leaves them
\* alone.
conc == <<workers, raced>>

vars == <<activities, request, response, lastOk, workers, raced>>

-----------------------------------------------------------------------------
(* Bounds of the model: which requests are tried.                          *)

\* How many emails that are in no seed list the clients use.
MaxNewEmails == 1

NewEmailPool ==
    << "test@mergington.edu", "newstudent@mergington.edu",
       "alice@mergington.edu", "notregistered@mergington.edu",
       "x@y.edu" >>

NewEmails ==
    { NewEmailPool[i] : i \in 1..(IF MaxNewEmails < Len(NewEmailPool)
                                   THEN MaxNewEmails ELSE Len(NewEmailPool)) }

\* Emails the clients send: two seeded ones (of different activities) and
\* the new ones.
Emails == {"michael@mergington.edu", "emma@mergington.edu"} \cup NewEmails

\* Activity names the clients send: two seeded activities and an unknown one.
ActivityNames == {"Chess Club", "Programming Class", "Nonexistent Club"}

\* How many threadpool workers handle signups at the same time.
NumThreads == 2

\* How many signups beyond an activity's max_participants the clients of the
\* capacity scenario try.
MaxOverCapacity == 1

-----------------------------------------------------------------------------
(* The seed directory.                                                     *)

SeedActivities ==
    [ a \in { "Chess Club", "Programming Class", "Gym Class",
              "Basketball Team", "Swimming Team", "Drama Club",
              "Art Club", "Debate Club", "Science Club" } |->
      CASE a = "Chess Club" ->
             [ description |-> "Learn strategies and compete in chess tournaments",
               schedule |-> "Fridays, 3:30 PM - 5:00 PM",
               max_participants |-> 12,
               participants |-> << "michael@mergington.edu", "daniel@mergington.edu" >> ]
        [] a = "Programming Class" ->
             [ description |-> "Learn programming fundamentals and build software projects",
               schedule |-> "Tuesdays and Thursdays, 3:30 PM - 4:30 PM",
               max_participants |-> 20,
               participants |-> << "emma@mergington.edu", "sophia@mergington.edu" >> ]
        [] a = "Gym Class" ->
             [ description |-> "Physical education and sports activities",
               schedule |-> "Mondays, Wednesdays, Fridays, 2:00 PM - 3:00 PM",
               max_participants |-> 30,
               participants |-> << "john@mergington.edu", "olivia@mergington.edu" >> ]
        [] a = "Basketball Team" ->
             [ description |-> "Join the competitive basketball team and compete in interscholastic games",
               schedule |-> "Mondays and Wednesdays, 4:00 PM - 5:30 PM",
               max_participants |-> 15,
               participants |-> << "alex@mergington.edu" >> ]
        [] a = "Swimming Team" ->
             [ description |-> "Competitive swimming with training and meets throughout the season",
               schedule |-> "Tuesdays and Thursdays, 4:00 PM - 5:30 PM",
               max_participants |-> 20,
               participants |-> << "marcus@mergington.edu", "jasmine@mergington.edu" >> ]
        [] a = "Drama Club" ->
             [ description |-> "Perform in school plays and develop acting and theatrical skills",
               schedule |-> "Thursdays, 3:30 PM - 5:00 PM",
               max_participants |-> 25,
               participants |-> << "lucy@mergington.edu" >> ]
        [] a = "Art Club" ->
             [ description |-> "Explore various art mediums and create collaborative art projects",
               schedule |-> "Wednesdays, 3:30 PM - 5:00 PM",
               max_participants |-> 18,
               participants |-> << "nina@mergington.edu", "david@mergington.edu" >> ]
        [] a = "Debate Club" ->
             [ description |-> "Develop public speaking and argumentation skills through competitive debate",
               schedule |-> "Mondays and Fridays, 3:30 PM - 5:00 PM",
               max_participants |-> 16,
               participants |-> << "ryan@mergington.edu" >> ]
        [] OTHER ->
             [ description |-> "Conduct experiments and explore scientific concepts through hands-on projects",
               schedule |-> "Tuesdays, 4:30 PM - 5:30 PM",
               max_participants |-> 20,
               participants |-> << "priya@mergington.edu", "chris@mergington.edu" >> ] ]

-----------------------------------------------------------------------------
(* Python list operation used by the handlers.                             *)

\* `x in lst`
Contains(lst, x) == \E i \in 1..Len(lst) : lst[i] = x

-----------------------------------------------------------------------------
(* Requests, responses and routing.                                        *)

\* A path parameter of a route, such as {activity_name}.
Param == "{activity_name}"

NoHeaders == <<>>
NoBody == <<>>

\* Routes as a bug would register them: the signup route's last segment is
\* a parameter too, so the route claims every /activities/{name}/{action}.
Routes_BroadSignupPath ==
    << [ methods |-> {"GET", "HEAD"}, path |-> <<>>, endpoint |-> "root" ],
       [ methods |-> {"GET", "HEAD"}, path |-> << "activities" >>,
         endpoint |-> "get_activities" ],
       [ methods |-> {"POST"}, path |-> << "activities", Param, Param >>,
         endpoint |-> "signup_for_activity" ] >>

\* The routes the application registers, in registration order.
Routes ==
    << [ methods |-> {"GET", "HEAD"}, path |-> <<>>, endpoint |-> "root" ],
       [ methods |-> {"GET", "HEAD"}, path |-> << "activities" >>,
         endpoint |-> "get_activities" ],
       [ methods |-> {"POST"}, path |-> << "activities", Param, "signup" >>,
         endpoint |-> "signup_for_activity" ] >>

\* A path (its segments) matches a route's pattern: same segments, a
\* parameter matching any one segment.
PathMatches(pattern, path) ==
    /\ Len(pattern) = Len(path)
    /\ \A i \in 1..Len(pattern) : pattern[i] = Param \/ pattern[i] = path[i]

\* The endpoint that handles a request: the first route matching path and
\* method; a path that matches only routes of other methods is answered
\* "Method Not Allowed", a path that matches no route "Not Found".
Endpoint(req) ==
    LET full == { i \in 1..Len(Routes) :
                    /\ PathMatches(Routes[i].path, req.path)
                    /\ req.method \in Routes[i].methods }
        partial == { i \in 1..Len(Routes) : PathMatches(Routes[i].path, req.path) }
    IN  IF full # {}
        THEN Routes[CHOOSE i \in full : \A j \in full : i <= j].endpoint
        ELSE IF partial # {} THEN "method_not_allowed" ELSE "not_found"

\* raise HTTPException(status_code, detail)
HTTPException(status_code, detail) ==
    [ status_code |-> status_code, headers |-> NoHeaders,
      body |-> [ detail |-> detail ] ]

\* a handler's return value, serialised as JSON with status 200
JSONResponse(content) ==
    [ status_code |-> 200, headers |-> NoHeaders, body |-> content ]

\* The redirect sent as 302 Found.
RedirectResponse_Found(url) ==
    [ status_code |-> 302, headers |-> [ location |-> url ], body |-> <<>> ]

\* RedirectResponse(url): status 307 unless given otherwise
RedirectResponse(url) ==
    [ status_code |-> 307, headers |-> [ location |-> url ], body |-> NoBody ]

SignupRequest(activity_name, email) ==
    [ method |-> "POST", path |-> << "activities", activity_name, "signup" >>,
      email |-> email ]

UnregisterRequest(activity_name, email) ==
    [ method |-> "DELETE", path |-> << "activities", activity_name, "unregister" >>,
      email |-> email ]

ListRequest == [ method |-> "GET", path |-> << "activities" >>, email |-> "" ]

RootRequest == [ method |-> "GET", path |-> <<>>, email |-> "" ]

\* The requests the clients send.
Requests ==
    {RootRequest, ListRequest}
    \cup { SignupRequest(a, e) : a \in ActivityNames, e \in Emails }
    \cup { UnregisterRequest(a, e) : a \in ActivityNames, e \in Emails }
    \cup { [ SignupRequest(a, e) EXCEPT !.method = "DELETE" ] :
             a \in ActivityNames, e \in Emails }

NoRequest == [ method |-> "", path |-> <<>>, email |-> "" ]
NoResponse == [ status_code |-> 0, headers |-> NoHeaders, body |-> NoBody ]

-----------------------------------------------------------------------------
(* The handlers.                                                           *)

\* The capacity scenario fills one activity, the one with the smallest
\* max_participants, with emails that are in no seed list.
CapacityActivity == "Chess Club"

FillerEmail(k) == "student" \o ToString(k) \o "@mergington.edu"

NumFillers ==
    SeedActivities[CapacityActivity].max_participants
        - Len(SeedActivities[CapacityActivity].participants) + MaxOverCapacity

FillerEmails == { FillerEmail(k) : k \in 1..NumFillers }

Pairs == ActivityNames \X (Emails \cup FillerEmails)

Threads == 1..NumThreads

Init ==
    /\ activities = SeedActivities
    /\ request = NoRequest
    /\ response = NoResponse
    /\ lastOk = [ p \in Pairs |-> "none" ]
    /\ workers = [ t \in Threads |->
                     [ pc |-> "idle", request |-> NoRequest, response |-> NoResponse ] ]
    /\ raced = {}

\* GET /
root(req) ==
    /\ Endpoint(req) = "root"
    /\ request' = req
    /\ UNCHANGED conc
    /\ response' = RedirectResponse("/static/index.html")
    /\ UNCHANGED <<activities, lastOk>>

\* The listing served from the seed data instead of the live directory.
ListResponse_Seed ==
    [ status_code |-> 200, headers |-> <<>>, body |-> SeedActivities ]

\* What get_activities returns in the current state: the whole directory.
ListResponse == JSONResponse(activities)

\* GET /activities
get_activities(req) ==
    /\ Endpoint(req) = "get_activities"
    /\ request' = req
    /\ UNCHANGED conc
    /\ response' = ListResponse
    /\ UNCHANGED <<activities, lastOk>>

\* `activity_name not in activities`
ActivityMissing(activity_name) == activity_name \notin DOMAIN activities

\* The duplicate check left out.
AlreadySignedUp_Never(activity, email) == FALSE

\* The duplicate check looking at the first participant only.
AlreadySignedUp_FirstOnly(activity, email) ==
    /\ Len(activity.participants) > 0
    /\ activity.participants[1] = email

\* `email in activity["participants"]`
AlreadySignedUp(activity, email) == Contains(activity.participants, email)

\* The student inserted at the front of the list instead of appended.
AddStudent_Prepend(activity_name, email) ==
    [ activities EXCEPT ![activity_name].participants = <<email>> \o @ ]

\* The student appended and, as if membership were exclusive, taken out of
\* every other activity.
AddStudent_Exclusive(activity_name, email) ==
    [ a \in DOMAIN activities |->
        [ activities[a] EXCEPT !.participants =
            IF a = activity_name
            THEN Append(@, email)
            ELSE SelectSeq(@, LAMBDA x : x # email) ] ]

\* The student appended and the capacity counted down as if it were the
\* number of places left.
AddStudent_CountsDown(activity_name, email) ==
    [ activities EXCEPT ![activity_name].participants = Append(@, email),
                        ![activity_name].max_participants = @ - 1 ]

\* `activity["participants"].append(email)`, as the directory after it
AddStudent(activity_name, email) ==
    [ activities EXCEPT ![activity_name].participants = Append(@, email) ]

\* signup that creates an unknown activity instead of refusing it.
signup_for_activity_AutoCreate(req) ==
    LET activity_name == req.path[2]
        email == req.email
        created == [ a \in DOMAIN activities \cup {activity_name} |->
                       IF a \in DOMAIN activities
                       THEN activities[a]
                       ELSE [ description |-> "", schedule |-> "",
                              max_participants |-> 0, participants |-> <<>> ] ]
    IN  /\ Endpoint(req) = "signup_for_activity"
        /\ request' = req
        /\ UNCHANGED conc
        /\ IF Contains(created[activity_name].participants, email)
           THEN /\ response' = HTTPException(400, "Already signed up for this activity")
                /\ UNCHANGED <<activities, lastOk>>
           ELSE /\ activities' = [ created EXCEPT ![activity_name].participants =
                                                     Append(@, email) ]
                /\ response' = JSONResponse(
                       [ message |-> "Signed up " \o email \o " for " \o activity_name ])
                /\ lastOk' = [ lastOk EXCEPT ![<<activity_name, email>>] = "signup" ]

\* signup that refuses a full activity.
signup_for_activity_CapacityCheck(req) ==
    LET activity_name == req.path[2]
        email == req.email
    IN  /\ Endpoint(req) = "signup_for_activity"
        /\ request' = req
        /\ UNCHANGED conc
        /\ IF ActivityMissing(activity_name)
           THEN /\ response' = HTTPException(404, "Activity not found")
                /\ UNCHANGED <<activities, lastOk>>
           ELSE IF AlreadySignedUp(activities[activity_name], email)
           THEN /\ response' = HTTPException(400, "Already signed up for this activity")
                /\ UNCHANGED <<activities, lastOk>>
           ELSE IF Len(activities[activity_name].participants)
                       >= activities[activity_name].max_participants
           THEN /\ response' = HTTPException(400, "Activity is full")
                /\ UNCHANGED <<activities, lastOk>>
           ELSE /\ activities' = AddStudent(activity_name, email)
                /\ response' = JSONResponse(
                       [ message |-> "Signed up " \o email \o " for " \o activity_name ])
                /\ lastOk' = [ lastOk EXCEPT ![<<activity_name, email>>] = "signup" ]

\* signup that appends before it validates: the duplicate is refused, but
\* only after the list has grown.
signup_for_activity_AppendFirst(req) ==
    LET activity_name == req.path[2]
        email == req.email
    IN  /\ Endpoint(req) = "signup_for_activity"
        /\ request' = req
        /\ UNCHANGED conc
        /\ IF ActivityMissing(activity_name)
           THEN /\ response' = HTTPException(404, "Activity not found")
                /\ UNCHANGED <<activities, lastOk>>
           ELSE /\ activities' = AddStudent(activity_name, email)
                /\ IF AlreadySignedUp(activities[activity_name], email)
                   THEN /\ response' = HTTPException(400, "Already signed up for this activity")
                        /\ UNCHANGED lastOk
                   ELSE /\ response' = JSONResponse(
                               [ message |-> "Signed up " \o email \o " for " \o activity_name ])
                        /\ lastOk' = [ lastOk EXCEPT ![<<activity_name, email>>] = "signup" ]

\* POST /activities/{activity_name}/signup?email=...
signup_for_activity(req) ==
    LET activity_name == req.path[2]
        email == req.email
    IN  /\ Endpoint(req) = "signup_for_activity"
        /\ request' = req
        /\ UNCHANGED conc
        /\ IF ActivityMissing(activity_name)
           THEN /\ response' = HTTPException(404, "Activity not found")
                /\ UNCHANGED <<activities, lastOk>>
           ELSE IF AlreadySignedUp(activities[activity_name], email)
           THEN /\ response' = HTTPException(400, "Already signed up for this activity")
                /\ UNCHANGED <<activities, lastOk>>
           ELSE /\ activities' = AddStudent(activity_name, email)
                /\ response' = JSONResponse(
                       [ message |-> "Signed up " \o email \o " for " \o activity_name ])
                /\ lastOk' = [ lastOk EXCEPT ![<<activity_name, email>>] = "signup" ]

\* A request whose path matches no registered route.
not_found(req) ==
    /\ Endpoint(req) = "not_found"
    /\ request' = req
    /\ UNCHANGED conc
    /\ response' = HTTPException(404, "Not Found")
    /\ UNCHANGED <<activities, lastOk>>

\* A request whose path matches a route registered for other methods only.
method_not_allowed(req) ==
    /\ Endpoint(req) = "method_not_allowed"
    /\ request' = req
    /\ UNCHANGED conc
    /\ response' = HTTPException(405, "Method Not Allowed")
    /\ UNCHANGED <<activities, lastOk>>

Next ==
    \E req \in Requests :
        \/ root(req)
        \/ get_activities(req)
        \/ signup_for_activity(req)
        \/ not_found(req)
        \/ method_not_allowed(req)

Spec == Init /\ [][Next]_vars

-----------------------------------------------------------------------------
(* Concurrent handling.  signup_for_activity is a plain `def`, which the    *)
(* framework runs on a threadpool worker per request; no lock is taken, so  *)
(* between two of its statements another worker may run.  A step is one     *)
(* statement of one worker.                                                 *)

\* The signups sent concurrently: a seeded and a new email, for a present
\* and an unknown activity.
ConcRequests ==
    { SignupRequest(a, e) :
        a \in {"Chess Club", "Nonexistent Club"},
        e \in {"michael@mergington.edu", "test@mergington.edu"} }

\* An idle worker takes a signup request.
Start(t, req) ==
    /\ workers[t].pc = "idle"
    /\ Endpoint(req) = "signup_for_activity"
    /\ workers' = [ workers EXCEPT ![t] =
                      [ pc |-> "exists", request |-> req, response |-> NoResponse ] ]
    /\ UNCHANGED <<activities, request, response, lastOk, raced>>

\* `if activity_name not in activities: raise ...`, then
\* `activity = activities[activity_name]`
CheckExists(t) ==
    LET activity_name == workers[t].request.path[2]
    IN  /\ workers[t].pc = "exists"
        /\ workers' = [ workers EXCEPT ![t] =
               IF ActivityMissing(activity_name)
               THEN [ @ EXCEPT !.pc = "idle",
                               !.response = HTTPException(404, "Activity not found") ]
               ELSE [ @ EXCEPT !.pc = "duplicate" ] ]
        /\ UNCHANGED <<activities, request, response, lastOk, raced>>

\* `if email in activity["participants"]: raise ...`
CheckDuplicate(t) ==
    LET activity_name == workers[t].request.path[2]
        email == workers[t].request.email
        waiting == \E u \in Threads \ {t} :
                       /\ workers[u].pc = "append"
                       /\ workers[u].request = workers[t].request
    IN  /\ workers[t].pc = "duplicate"
        /\ IF AlreadySignedUp(activities[activity_name], email)
           THEN /\ workers' = [ workers EXCEPT ![t] =
                      [ @ EXCEPT !.pc = "idle",
                                 !.response = HTTPException(
                                     400, "Already signed up for this activity") ] ]
                /\ UNCHANGED raced
           ELSE /\ workers' = [ workers EXCEPT ![t].pc = "append" ]
                /\ raced' = IF waiting
                            THEN raced \cup { <<activity_name, email>> }
                            ELSE raced
        /\ UNCHANGED <<activities, request, response, lastOk>>

\* `activity["participants"].append(email)`, then the return
AppendEmail(t) ==
    LET activity_name == workers[t].request.path[2]
        email == workers[t].request.email
    IN  /\ workers[t].pc = "append"
        /\ activities' = AddStudent(activity_name, email)
        /\ workers' = [ workers EXCEPT ![t] =
               [ @ EXCEPT !.pc = "idle",
                          !.response = JSONResponse(
                              [ message |-> "Signed up " \o email
                                                \o " for " \o activity_name ]) ] ]
        /\ lastOk' = [ lastOk EXCEPT ![<<activity_name, email>>] = "signup" ]
        /\ UNCHANGED <<request, response, raced>>

NextConc ==
    \E t \in Threads :
        \/ \E req \in ConcRequests : Start(t, req)
        \/ CheckExists(t)
        \/ CheckDuplicate(t)
        \/ AppendEmail(t)

\* Signups handled by NumThreads workers whose statements interleave.
SpecConc == Init /\ [][NextConc]_vars

-----------------------------------------------------------------------------
(* The capacity scenario.                                                  *)

\* The requests of the capacity scenario: signups for CapacityActivity by
\* the fillers, and one request of every other kind.
CapacityRequests ==
    {RootRequest, ListRequest}
    \cup { SignupRequest(CapacityActivity, e) : e \in FillerEmails }
    \cup { UnregisterRequest(CapacityActivity, FillerEmail(1)),
           [ SignupRequest(CapacityActivity, FillerEmail(1))
               EXCEPT !.method = "DELETE" ] }

\* The fillers sign up in turn: a filler's signup is sent once every filler
\* before it is in the list (and may be sent again afterwards).
InTurn(req) ==
    \A k \in 2..NumFillers :
        req = SignupRequest(CapacityActivity, FillerEmail(k))
        => Contains(activities[CapacityActivity].participants, FillerEmail(k - 1))

NextCapacity ==
    \E req \in CapacityRequests :
        \/ root(req)
        \/ get_activities(req)
        \/ InTurn(req) /\ signup_for_activity(req)
        \/ not_found(req)
        \/ method_not_allowed(req)

\* The same handlers, driven by the requests of the capacity scenario.
SpecCapacity == Init /\ [][NextCapacity]_vars

-----------------------------------------------------------------------------
(* Vocabulary of the properties.                                           *)

Participants(activity_name) == activities[activity_name].participants

SeedParticipants(activity_name) == SeedActivities[activity_name].participants

\* how many times x occurs in lst
Count(lst, x) == Cardinality({ i \in 1..Len(lst) : lst[i] = x })

\* lst with every occurrence of x taken out, the others in their order
Without(lst, x) == SelectSeq(lst, LAMBDA y : y # x)

Conflict == HTTPException(400, "Already signed up for this activity")

ActivityNotFound == HTTPException(404, "Activity not found")

SignedUp(activity_name, email) ==
    JSONResponse([ message |-> "Signed up " \o email \o " for " \o activity_name ])

Unregistered(activity_name, email) ==
    JSONResponse([ message |-> "Unregistered " \o email \o " from " \o activity_name ])

-----------------------------------------------------------------------------
(* Properties.                                                             *)

\* C1: in every reachable state, no activity's participants list holds the
\* same email twice.
C1_NoDuplicateParticipants ==
    \A a \in DOMAIN activities :
        \A i, j \in 1..Len(Participants(a)) :
            i # j => Participants(a)[i] # Participants(a)[j]

\* A signup of an email that an earlier signup added has just been refused:
\* the list holds the seed emails and that email, once.
C1_Witness ==
    /\ request = SignupRequest("Chess Club", "test@mergington.edu")
    /\ response = Conflict
    /\ lastOk[<<"Chess Club", "test@mergington.edu">>] = "signup"
    /\ Count(Participants("Chess Club"), "test@mergington.edu") = 1
    /\ Len(Participants("Chess Club")) > Len(SeedParticipants("Chess Club"))

\* C2: a signup for a present activity by an email not in its list is
\* answered 200 with "Signed up {e} for {A}"; the email is appended at the
\* end, the emails already there keep their places, the list grows by one,
\* and the listing of the new state shows the email exactly once.
C2_SignupAppends ==
    [][ \A a \in ActivityNames, e \in Emails :
          ( /\ request' = SignupRequest(a, e)
            /\ a \in DOMAIN activities
            /\ ~Contains(Participants(a), e) )
          => /\ response' = SignedUp(a, e)
             /\ Participants(a)' = Append(Participants(a), e)
             /\ Len(Participants(a)') = Len(Participants(a)) + 1
             /\ \A i \in 1..Len(Participants(a)) :
                    Participants(a)'[i] = Participants(a)[i]
             /\ Participants(a)'[Len(Participants(a)')] = e
             /\ Count(ListResponse'.body[a].participants, e) = 1 ]_vars

\* Two signups for Chess Club have succeeded, the second one just now: the
\* seed emails come first, then the two new emails in signup order.
C2_Witness ==
    /\ request = SignupRequest("Chess Club", "test@mergington.edu")
    /\ response = SignedUp("Chess Club", "test@mergington.edu")
    /\ Participants("Chess Club") =
           SeedParticipants("Chess Club")
               \o << "emma@mergington.edu", "test@mergington.edu" >>

\* C3: a signup by an email already in the activity's list is answered 400
\* "Already signed up for this activity", whether the email is there from
\* the seed or from an earlier signup.
C3_DuplicateSignupConflict ==
    [][ \A a \in ActivityNames, e \in Emails :
          ( /\ request' = SignupRequest(a, e)
            /\ a \in DOMAIN activities
            /\ Contains(Participants(a), e) )
          => response' = Conflict ]_vars

\* The signup of an email that is not first in the list, added by an
\* earlier signup, has just been refused.
C3_Witness ==
    /\ request = SignupRequest("Programming Class", "michael@mergington.edu")
    /\ response = Conflict
    /\ lastOk[<<"Programming Class", "michael@mergington.edu">>] = "signup"
    /\ "michael@mergington.edu" \notin
           { SeedParticipants("Programming Class")[i] :
               i \in 1..Len(SeedParticipants("Programming Class")) }

\* C4: a signup for a name that is no key of the directory is answered 404
\* "Activity not found", for every email, and creates no activity of that
\* name.
C4_SignupUnknownActivity ==
    [][ \A a \in ActivityNames, e \in Emails :
          ( /\ request' = SignupRequest(a, e)
            /\ a \notin DOMAIN activities )
          => /\ response' = ActivityNotFound
             /\ a \notin DOMAIN activities'
             /\ activities' = activities ]_vars

\* A signup for the unknown activity has just been refused, in a state other
\* signups have already changed.
C4_Witness ==
    /\ request = SignupRequest("Nonexistent Club", "test@mergington.edu")
    /\ response = ActivityNotFound
    /\ "Nonexistent Club" \notin DOMAIN activities
    /\ activities # SeedActivities

\* C5: an unregister of an email that is in the list of a present activity
\* is answered 200 with "Unregistered {e} from {A}"; the email is taken out
\* of the list, the other emails keep their order, and the listing of the
\* new state does not show the email under the activity.
C5_UnregisterRemoves ==
    [][ \A a \in ActivityNames, e \in Emails :
          ( /\ request' = UnregisterRequest(a, e)
            /\ a \in DOMAIN activities
            /\ Contains(Participants(a), e) )
          => /\ response' = Unregistered(a, e)
             /\ Participants(a)' = Without(Participants(a), e)
             /\ ~Contains(ListResponse'.body[a].participants, e) ]_vars

\* C6: an unregister of an email that is not in the list of a present
\* activity is answered 400; so is the second of two unregisters of the same
\* email issued one after the other.
C6_UnregisterNotRegistered ==
    [][ \A a \in ActivityNames, e \in Emails :
          /\ ( /\ request' = UnregisterRequest(a, e)
               /\ a \in DOMAIN activities
               /\ ~Contains(Participants(a), e) )
             => response'.status_code = 400
          /\ ( /\ request = UnregisterRequest(a, e)
               /\ response.status_code = 200
               /\ request' = UnregisterRequest(a, e) )
             => response'.status_code = 400 ]_vars

\* C7: an unregister for a name that is no key of the directory is answered
\* 404, for every email.
C7_UnregisterUnknownActivity ==
    [][ \A a \in ActivityNames, e \in Emails :
          ( /\ request' = UnregisterRequest(a, e)
            /\ a \notin DOMAIN activities )
          => response'.status_code = 404 ]_vars

\* An unregister for the unknown activity has just been answered 404.
C7_Witness ==
    /\ request = UnregisterRequest("Nonexistent Club", "michael@mergington.edu")
    /\ response.status_code = 404
    /\ "Nonexistent Club" \notin DOMAIN activities

\* C8: after a signup of e for A has succeeded, every later signup of e for
\* A is answered Conflict as long as no unregister of e from A has succeeded
\* since; and the signup that directly follows an unregister of e from a
\* present A that was not refused as NotRegistered (400), and so, A being
\* present, had to succeed, is answered 200 and leaves e in A's list.
C8_SignupUnregisterRoundTrip ==
    [][ \A a \in ActivityNames, e \in Emails :
          request' = SignupRequest(a, e)
          => /\ lastOk[<<a, e>>] = "signup" => response' = Conflict
             /\ ( /\ request = UnregisterRequest(a, e)
                  /\ a \in DOMAIN activities
                  /\ response.status_code # 400 )
                => /\ response' = SignedUp(a, e)
                   /\ Contains(Participants(a)', e) ]_vars

\* C9: membership is per activity.  A signup or an unregister on A leaves
\* every other activity as it was, and whether a signup on a present A is
\* accepted is decided by A's own list alone: 200 when the email is not in
\* it, whatever the other lists hold, and Conflict when it is.
C9_MembershipPerActivity ==
    [][ \A a \in ActivityNames, e \in Emails :
          /\ request' \in {SignupRequest(a, e), UnregisterRequest(a, e)}
             => \A b \in DOMAIN activities \ {a} :
                    /\ b \in DOMAIN activities'
                    /\ activities'[b] = activities[b]
          /\ ( request' = SignupRequest(a, e) /\ a \in DOMAIN activities )
             => IF Contains(Participants(a), e)
                THEN response' = Conflict
                ELSE response' = SignedUp(a, e) ]_vars

\* michael, a seed participant of Chess Club, has just signed up for
\* Programming Class and is now in both lists; emma, a seed participant of
\* Programming Class, is in both lists too.
C9_Witness ==
    /\ request = SignupRequest("Programming Class", "michael@mergington.edu")
    /\ response = SignedUp("Programming Class", "michael@mergington.edu")
    /\ Contains(Participants("Chess Club"), "michael@mergington.edu")
    /\ Contains(Participants("Programming Class"), "michael@mergington.edu")
    /\ Contains(Participants("Chess Club"), "emma@mergington.edu")
    /\ Contains(Participants("Programming Class"), "emma@mergington.edu")

\* C10: a signup or an unregister that is not answered 200 leaves the whole
\* directory as it was.
C10_FailureChangesNothing ==
    [][ \A a \in ActivityNames, e \in Emails :
          ( /\ request' \in {SignupRequest(a, e), UnregisterRequest(a, e)}
            /\ response'.status_code # 200 )
          => activities' = activities ]_vars

\* A duplicate signup has just been refused in a directory that earlier
\* signups have changed, and the list is what those signups left.
C10_Witness ==
    /\ request = SignupRequest("Chess Club", "michael@mergington.edu")
    /\ response = Conflict
    /\ Participants("Chess Club") =
           SeedParticipants("Chess Club") \o << "test@mergington.edu" >>

\* C12: the listing never fails and changes nothing: in every reachable
\* state a list request can be handled, and it is answered 200 with every
\* activity of the directory and exactly its stored description, schedule,
\* max_participants and participants (same emails, same order).
C12_ListReturnsDirectory ==
    /\ []ENABLED get_activities(ListRequest)
    /\ [][ request' = ListRequest
           => /\ response'.status_code = 200
              /\ activities' = activities
              /\ DOMAIN response'.body = DOMAIN activities
              /\ \A a \in DOMAIN activities :
                    /\ response'.body[a].description = activities[a].description
                    /\ response'.body[a].schedule = activities[a].schedule
                    /\ response'.body[a].max_participants
                           = activities[a].max_participants
                    /\ response'.body[a].participants = Participants(a) ]_vars

\* A listing has just been returned after two signups for Chess Club: it
\* shows the two new emails after the seed ones, in signup order.
C12_Witness ==
    /\ request = ListRequest
    /\ response.status_code = 200
    /\ response.body["Chess Club"].participants =
           SeedParticipants("Chess Club")
               \o << "test@mergington.edu", "emma@mergington.edu" >>
    /\ response.body = activities

\* C13: GET / is always answered with a 307 redirect whose Location is
\* /static/index.html, in every state, and changes nothing in the directory.
C13_RootRedirects ==
    /\ []ENABLED root(RootRequest)
    /\ [][ request' = RootRequest
           => /\ response'.status_code = 307
              /\ response'.headers.location = "/static/index.html"
              /\ activities' = activities ]_vars

\* GET / has just been answered with the redirect in a directory that
\* signups have changed.
C13_Witness ==
    /\ request = RootRequest
    /\ response.status_code = 307
    /\ response.headers.location = "/static/index.html"
    /\ activities # SeedActivities

\* C14: in every reachable state the directory has the seed's activity names
\* and each activity its seed description, schedule and max_participants;
\* only participants lists differ from the seed.
C14_OnlyParticipantsChange ==
    /\ DOMAIN activities = DOMAIN SeedActivities
    /\ \A a \in DOMAIN SeedActivities :
          /\ DOMAIN activities[a] = DOMAIN SeedActivities[a]
          /\ activities[a].description = SeedActivities[a].description
          /\ activities[a].schedule = SeedActivities[a].schedule
          /\ activities[a].max_participants = SeedActivities[a].max_participants

\* Signups have changed the participants of two activities, and requests
\* for an unknown activity have been handled since.
C14_Witness ==
    /\ Participants("Chess Club") # SeedParticipants("Chess Club")
    /\ Participants("Programming Class") # SeedParticipants("Programming Class")
    /\ request = SignupRequest("Nonexistent Club", "test@mergington.edu")
    /\ response.status_code = 404

\* C16: in every reachable state, for every activity A and email e: e is in
\* A's participants exactly when the last signup or unregister on (A, e)
\* that succeeded was a signup, or none has succeeded yet and e is in A's
\* seed participants.
C16_MembershipFollowsLastSuccess ==
    \A a \in ActivityNames \cap DOMAIN activities, e \in Emails :
        Contains(Participants(a), e)
        <=> \/ lastOk[<<a, e>>] = "signup"
            \/ /\ lastOk[<<a, e>>] = "none"
               /\ Contains(SeedParticipants(a), e)

\* All three cases at once, after a refused signup: michael is in Chess Club
\* from the seed with no successful operation on the pair, test is in Chess
\* Club by a signup, and emma, on whom nothing has succeeded for Chess Club,
\* is not in it.
C16_Witness ==
    /\ request = SignupRequest("Chess Club", "michael@mergington.edu")
    /\ response = Conflict
    /\ lastOk[<<"Chess Club", "michael@mergington.edu">>] = "none"
    /\ Contains(Participants("Chess Club"), "michael@mergington.edu")
    /\ lastOk[<<"Chess Club", "test@mergington.edu">>] = "signup"
    /\ Contains(Participants("Chess Club"), "test@mergington.edu")
    /\ lastOk[<<"Chess Club", "emma@mergington.edu">>] = "none"
    /\ ~Contains(Participants("Chess Club"), "emma@mergington.edu")

\* C11: signup enforces no capacity.  A signup for a present activity by an
\* email not in its list succeeds also when the list already holds
\* max_participants emails or more, and the list then exceeds
\* max_participants.
C11_NoCapacityEnforcement ==
    [][ \A a \in ActivityNames \cap DOMAIN activities,
           e \in Emails \cup FillerEmails :
          ( /\ request' = SignupRequest(a, e)
            /\ ~Contains(Participants(a), e)
            /\ Len(Participants(a)) >= activities[a].max_participants )
          => /\ response' = SignedUp(a, e)
             /\ Participants(a)' = Append(Participants(a), e)
             /\ Len(Participants(a)') > activities'[a].max_participants ]_vars

\* A signup for the full activity has just succeeded: the list is longer
\* than max_participants.
C11_Witness ==
    /\ request.path = << "activities", CapacityActivity, "signup" >>
    /\ response = SignedUp(CapacityActivity, request.email)
    /\ Len(Participants(CapacityActivity))
           > activities[CapacityActivity].max_participants
    /\ activities[CapacityActivity].max_participants
           = SeedActivities[CapacityActivity].max_participants

\* The workers that hold a 200 answer to signup(a, e).
Succeeded(a, e) ==
    { t \in Threads : /\ workers[t].request = SignupRequest(a, e)
                      /\ workers[t].response = SignedUp(a, e) }

\* C15 as stated: with the existence check, the duplicate check and the
\* append of concurrent signups interleaving, no list holds an email twice
\* and of the signups of one email for one activity at most one succeeds.
C15_ConcurrentSignupsNoDuplicates ==
    /\ C1_NoDuplicateParticipants
    /\ \A req \in ConcRequests :
          Cardinality(Succeeded(req.path[2], req.email)) <= 1

\* C15 as amended: the same holds for every activity and email for which no
\* worker ran its duplicate check between another worker's duplicate check
\* and that worker's append.
C15_NoDuplicatesUnlessInterleaved ==
    /\ \A a \in DOMAIN activities :
          \A i, j \in 1..Len(Participants(a)) :
              ( i # j /\ Participants(a)[i] = Participants(a)[j] )
              => <<a, Participants(a)[i]>> \in raced
    /\ \A req \in ConcRequests :
          <<req.path[2], req.email>> \notin raced
          => Cardinality(Succeeded(req.path[2], req.email)) <= 1

\* Two workers have both handled a signup of the same new email for Chess
\* Club, without such an interleaving: one was answered 200, the other 400,
\* and the email is in the list once.
C15_Witness ==
    /\ workers[1].request = SignupRequest("Chess Club", "test@mergington.edu")
    /\ workers[2].request = SignupRequest("Chess Club", "test@mergington.edu")
    /\ workers[1].pc = "idle"
    /\ workers[2].pc = "idle"
    /\ workers[1].response = SignedUp("Chess Club", "test@mergington.edu")
    /\ workers[2].response = Conflict
    /\ raced = {}
    /\ Count(Participants("Chess Club"), "test@mergington.edu") = 1

====
